---- MODULE Spec2Model ----
(***************************************************************************)
(* SafeDataTool: the risk / privacy / utility pipeline of src/app.         *)
(*                                                                         *)
(* A dataset (pandas DataFrame) is a sequence of rows; a row maps each     *)
(* column name to a cell; a cell is a number, a string (a sequence of      *)
(* characters) or the missing marker NaN.  Ratios the code computes in     *)
(* floating point are kept exact, as [num, den] with den > 0.              *)
(***************************************************************************)
EXTENDS Integers, Sequences, FiniteSets, TLC

VARIABLES
    dataset_file,       \* what is stored at dataset_path: NoFile, or the table in it
    identifier_file,    \* NoPath (no identifier_path given), NoFile, or the table in it
    config,             \* PipelineConfig: quasi_identifiers, privacy_technique, privacy_parameters
    status,             \* PipelineRun.status
    pc,                 \* where execute_run / PipelineOrchestrator.run stands
    original_df,        \* run(): original_df
    identifier_df,      \* run(): identifier_df
    quasi_identifiers,  \* run(): quasi_identifiers
    risk_metrics,       \* run(): risk_metrics
    privacy_result,     \* run(): privacy_result
    utility_metrics,    \* run(): utility_metrics
    files,              \* files written under processed_data_dir and reports_dir
    artifacts,          \* what run() returned
    error,              \* the exception in flight or propagated, "" when none
    trace,              \* history: the stages entered, each with the datasets it was handed
    run_id,             \* run(): the run_id argument
    now                 \* datetime.utcnow(), in whole seconds

vars == <<dataset_file, identifier_file, config, status, pc, original_df, identifier_df,
          quasi_identifiers, risk_metrics, privacy_result, utility_metrics, files,
          artifacts, error, trace, run_id, now>>

----------------------------------------------------------------------------
(* Bounds of the model *)

MaxRows == 2

MaxK == 3

Columns == {"age", "zipcode"}

NumVals == {1, 2}

Sep == <<"|", "|">>

StrVals == {<<"a">>, <<"a">> \o Sep \o <<"a">>}

----------------------------------------------------------------------------
(* Cells and datasets *)

Num(n) == [t |-> "num", n |-> n, s |-> <<>>]

Str(s) == [t |-> "str", n |-> 0, s |-> s]

NaN == [t |-> "nan", n |-> 0, s |-> <<>>]

\* An optional DataFrame argument: None, or a table.
NoDataFrame == [given |-> FALSE, df |-> <<>>]

Given(df) == [given |-> TRUE, df |-> df]

\* A column as pandas.read_csv types it: all numbers (NaN for an empty field),
\* or all strings (NaN for an empty field).
Series(n) ==
    [1..n -> {Num(v) : v \in NumVals} \cup {NaN}] \cup [1..n -> {Str(v) : v \in StrVals} \cup {NaN}]

\* A column with no empty field.
Complete(n) == {c \in Series(n) : \A i \in 1..n : c[i] # NaN}

\* The tables of n rows: age has a value in every row, zipcode may miss some.
Tables(n) ==
    {[i \in 1..n |-> [age |-> a[i], zipcode |-> z[i]]] : a \in Complete(n), z \in Series(n)}

\* The end-to-end scenario: 6 rows, 4 sharing one (age, zipcode) pair, 2 singletons.
Scenario6 ==
    <<[age |-> Num(1), zipcode |-> Str(<<"a">>)], [age |-> Num(1), zipcode |-> Str(<<"a">>)],
      [age |-> Num(2), zipcode |-> Str(<<"a">>)], [age |-> Num(1), zipcode |-> Str(<<"a">>)],
      [age |-> Num(1), zipcode |-> Str(<<"a">> \o Sep \o <<"a">>)],
      [age |-> Num(1), zipcode |-> Str(<<"a">>)]>>

\* A table whose numeric column has mean exactly zero.
ZeroMean ==
    <<[age |-> Num(-1), zipcode |-> Str(<<"a">>)], [age |-> Num(1), zipcode |-> Str(<<"a">>)]>>

Datasets == UNION {Tables(n) : n \in 0..MaxRows} \cup {Scenario6, ZeroMean}

RowIdx(df) == 1..Len(df)

Abs(x) == IF x < 0 THEN -x ELSE x

RECURSIVE SumOver(_, _)
SumOver(S, f) ==
    IF S = {} THEN 0
    ELSE LET x == CHOOSE y \in S : TRUE IN f[x] + SumOver(S \ {x}, f)

\* pandas.api.types.is_numeric_dtype of a column.  read_csv gives an empty column
\* dtype object and an all-missing column float64; a column holding any string is object.
is_numeric_dtype(df, column) ==
    /\ Len(df) > 0
    /\ \A i \in RowIdx(df) : df[i][column].t \in {"num", "nan"}

----------------------------------------------------------------------------
(* Risk Analyzer: src/app/pipeline/risk/analyzer.py *)

Ratio(n, d) == [num |-> n, den |-> d]

Zero == Ratio(0, 1)

QITuple(row, qi) == [j \in 1..Len(qi) |-> row[qi[j]]]

\* DataFrame.groupby(keys) runs with dropna=True: a row with a missing value in
\* any key column belongs to no group.
GroupedRows(df, qi) ==
    {i \in RowIdx(df) : \A j \in 1..Len(qi) : df[i][qi[j]].t # "nan"}

\* grouped.size(): the groups, each the set of its row positions.
group_sizes(df, qi) ==
    {{j \in GroupedRows(df, qi) : QITuple(df[j], qi) = QITuple(df[i], qi)} :
        i \in GroupedRows(df, qi)}

MinOf(S) == CHOOSE x \in S : \A y \in S : x <= y

uniques_rate(df, qi) ==
    LET unique_count == Cardinality({g \in group_sizes(df, qi) : Cardinality(g) = 1})
        total == Len(df)
    IN [name |-> "uniques_rate",
        value |-> IF total # 0 THEN Ratio(unique_count, total) ELSE Zero,
        details |-> [unique_records |-> unique_count, total_records |-> total]]

k_map(df, qi) ==
    LET sizes == group_sizes(df, qi)
        rows == Cardinality(UNION sizes)
    IN [name |-> "k_map",
        value |-> IF sizes # {} THEN Ratio(rows, Cardinality(sizes)) ELSE Zero,
        details |-> [min_k |-> IF sizes # {} THEN MinOf({Cardinality(g) : g \in sizes})
                               ELSE 0]]

\* DataFrame.merge(how="left", indicator=True): one joined row per (left row,
\* matching right row) pair, marked "both"; a left row without a match gives one
\* joined row marked "left_only".  Missing keys match missing keys.
MergeBoth(anonymised_df, ref_df, qi) ==
    {<<i, j>> \in RowIdx(anonymised_df) \X RowIdx(ref_df) :
        QITuple(anonymised_df[i], qi) = QITuple(ref_df[j], qi)}

linkage_success_rate(anonymised_df, ref_df, qi) ==
    LET matched == Cardinality(MergeBoth(anonymised_df, ref_df, qi))
        total == Len(anonymised_df)
    IN [name |-> "linkage_success_rate",
        value |-> IF total # 0 THEN Ratio(matched, total) ELSE Zero,
        details |-> [matched_records |-> matched, total_records |-> total]]

Raised(kind) == [ok |-> FALSE, error |-> kind, value |-> <<>>]

Returned(v) == [ok |-> TRUE, error |-> "", value |-> v]

\* RiskAnalyzer.__init__: stores the list.
RiskAnalyzerInit(qi) == Returned([quasi_identifiers |-> qi])

\* Were the list never found empty.
never_empty(qi) == FALSE

\* not self.quasi_identifiers
no_quasi_identifiers(qi) == Len(qi) = 0

\* Were the quasi-identifiers the dataset lacks left out of the grouping.
RiskEvaluateSkipping(qi, anonymised_df, ref_df) ==
    LET present == SelectSeq(qi, LAMBDA c : c \in Columns)
    IN IF no_quasi_identifiers(qi) THEN Raised("ValueError")
       ELSE Returned(<<uniques_rate(anonymised_df, present), k_map(anonymised_df, present)>>
                     \o (IF ref_df.given
                         THEN <<linkage_success_rate(anonymised_df, ref_df.df, present)>>
                         ELSE <<>>))

\* RiskAnalyzer(quasi_identifiers).evaluate(anonymised_df, identifier_df).
\* groupby raises KeyError on a key that is no column of the dataset.
RiskEvaluate(qi, anonymised_df, ref_df) ==
    LET self == RiskAnalyzerInit(qi).value
    IN IF no_quasi_identifiers(self.quasi_identifiers) THEN Raised("ValueError")
       ELSE IF \E j \in 1..Len(qi) : qi[j] \notin Columns THEN Raised("KeyError")
       ELSE Returned(<<uniques_rate(anonymised_df, qi), k_map(anonymised_df, qi)>>
                     \o (IF ref_df.given
                         THEN <<linkage_success_rate(anonymised_df, ref_df.df, qi)>>
                         ELSE <<>>))

----------------------------------------------------------------------------
(* Privacy Transformer: src/app/pipeline/privacy/transformers.py *)

Digits == <<"0", "1", "2", "3", "4", "5", "6", "7", "8", "9">>

RECURSIVE NatStr(_)
NatStr(n) == IF n < 10 THEN <<Digits[n + 1]>> ELSE NatStr(n \div 10) \o <<Digits[(n % 10) + 1]>>

IntStr(n) == IF n < 0 THEN <<"-">> \o NatStr(-n) ELSE NatStr(n)

\* astype(str) of one cell.  A numeric column holding a missing value is float64,
\* so its numbers print with a fraction; a missing value prints as nan.
astype_str(df, column, i) ==
    LET c == df[i][column]
        isFloat == \E r \in RowIdx(df) : df[r][column].t = "nan"
    IN CASE c.t = "num" -> IF isFloat THEN IntStr(c.n) \o <<".", "0">> ELSE IntStr(c.n)
         [] c.t = "str" -> c.s
         [] OTHER -> <<"n", "a", "n">>

RECURSIVE JoinFrom(_, _, _, _)
JoinFrom(df, qi, i, j) ==
    IF j = Len(qi) THEN astype_str(df, qi[j], i)
    ELSE astype_str(df, qi[j], i) \o Sep \o JoinFrom(df, qi, i, j + 1)

\* protected[quasi_identifiers].astype(str).agg("||".join, axis=1)
key_series(df, qi) == [i \in RowIdx(df) |-> JoinFrom(df, qi, i, 1)]

\* key_series.map(key_series.value_counts())
key_counts(df, qi) ==
    LET keys == key_series(df, qi)
    IN [i \in RowIdx(df) |-> Cardinality({r \in RowIdx(df) : keys[r] = keys[i]})]

\* The mask, were the comparison counts <= k.
suppressed_mask_inclusive(df, qi, k) == [i \in RowIdx(df) |-> key_counts(df, qi)[i] <= k]

\* suppressed_mask = counts < k
suppressed_mask(df, qi, k) == [i \in RowIdx(df) |-> key_counts(df, qi)[i] < k]

SUPPRESSED == Str(<<"SUPPRESSED">>)

\* The label of the i-th of `bins` equal-width intervals pandas.cut lays over the
\* column's range, as astype(str) prints it.
BinLabel(i, bins) == Str(<<"(", "bin">> \o NatStr(i) \o <<"/">> \o NatStr(bins) \o <<"]">>)

\* pandas.cut(series, bins=bin_count): right-closed intervals of width
\* (max - min) / bin_count, the lowest one stretched to take in the minimum.
CutIndex(x, lo, hi, bins) ==
    IF x = lo THEN 1
    ELSE CHOOSE i \in 1..bins :
            /\ (x - lo) * bins <= i * (hi - lo)
            /\ (x - lo) * bins > (i - 1) * (hi - lo)

generalise_numeric(series, bin_count) ==
    LET present == {series[i].n : i \in {r \in DOMAIN series : series[r].t = "num"}}
    IN IF Cardinality(present) <= bin_count THEN series
       ELSE LET lo == MinOf(present)
                hi == -MinOf({-x : x \in present})
            IN [i \in DOMAIN series |->
                  IF series[i].t = "num" THEN BinLabel(CutIndex(series[i].n, lo, hi, bin_count), bin_count)
                  ELSE Str(<<"n", "a", "n">>)]

ColumnOf(df, column) == [i \in RowIdx(df) |-> df[i][column]]

\* The assignment, were the series written to every column of the table.
SetEveryColumn(df, column, series) ==
    [i \in RowIdx(df) |-> [c \in DOMAIN df[i] |-> series[i]]]

\* protected[column] = series, protected.loc[mask, column] = value
SetColumn(df, column, series) ==
    [i \in RowIdx(df) |-> [df[i] EXCEPT ![column] = series[i]]]

\* The loop over the quasi-identifier columns, from the j-th on.
RECURSIVE KAnonColumns(_, _, _, _, _, _)
KAnonColumns(protected, qi, j, mask, generalise, bin_count) ==
    IF j > Len(qi) THEN protected
    ELSE LET column == qi[j]
             next == IF generalise /\ is_numeric_dtype(protected, column)
                     THEN SetColumn(protected, column,
                                    generalise_numeric(ColumnOf(protected, column), bin_count))
                     ELSE SetColumn(protected, column,
                                    [i \in RowIdx(protected) |->
                                        IF mask[i] THEN SUPPRESSED ELSE protected[i][column]])
         IN KAnonColumns(next, qi, j + 1, mask, generalise, bin_count)

\* parameters.get(key, default)
Get(parameters, key, default) == IF key \in DOMAIN parameters THEN parameters[key] ELSE default

DefaultK == 5

DefaultBinCount == 5

\* Were no copy taken: the transformer would write to the caller's object.
copy_alias(df) == [table |-> df, aliased |-> TRUE]

\* df.copy(deep=True): a new object holding the same values.  `aliased` tells
\* whether the result is the caller's own object, which later writes would change.
copy_deep(df) == [table |-> df, aliased |-> FALSE]

\* PrivacyTransformer._apply_k_anonymity
apply_k_anonymity(df, qi, parameters) ==
    IF Len(qi) = 0 THEN Raised("ValueError")
    ELSE IF \E j \in 1..Len(qi) : qi[j] \notin Columns THEN Raised("KeyError")
    ELSE LET k == Get(parameters, "k", DefaultK)
             generalise == Get(parameters, "generalise_numeric", TRUE)
             bin_count == Get(parameters, "bin_count", DefaultBinCount)
             copy == copy_deep(df)
             mask == suppressed_mask(copy.table, qi, k)
         IN Returned([protected |-> KAnonColumns(copy.table, qi, 1, mask, generalise, bin_count),
                      aliased |-> copy.aliased,
                      info |-> [k |-> k,
                                suppressed_rows |-> Cardinality({i \in RowIdx(df) : mask[i]}),
                                total_rows |-> Len(df)]])

NoiseVals == {-1, 1}

\* The draws numpy.random.laplace may return: one value per row for each numeric
\* column (no draw is made for another column, or when the technique is not
\* differential privacy with a positive epsilon).  The continuous distribution is
\* cut down to one step either way, times the scale.
NoNoise(n) == [c \in Columns |-> [i \in 1..n |-> 0]]

NoiseDraws(technique, parameters, df) ==
    IF technique \in {"differential_privacy", "dp", "DP"} /\ Get(parameters, "epsilon", 1) > 0
    THEN {noise \in [Columns -> [RowIdx(df) -> NoiseVals \cup {0}]] :
            \A c \in Columns : \A i \in RowIdx(df) :
                noise[c][i] = 0 <=> ~(is_numeric_dtype(df, c) /\ df[i][c].t = "num")}
    ELSE {NoNoise(Len(df))}

\* The guard, were an epsilon of 1 refused as well.
epsilon_rejected_up_to_one(epsilon) == epsilon <= 1

\* if epsilon <= 0: raise ValueError
epsilon_rejected(epsilon) == epsilon <= 0

\* The selection, were only the first column looked at.
numeric_columns_first(df) == {c \in {"age"} : is_numeric_dtype(df, c)}

\* protected.select_dtypes(include=[np.number]).columns
numeric_columns(df) == {c \in Columns : is_numeric_dtype(df, c)}

\* The loop, were the result built from the selected columns alone.
perturbed_selected_only(df, columns, scale, noise) ==
    [i \in RowIdx(df) |->
        [c \in Columns |->
            IF c \in columns /\ df[i][c].t = "num" THEN Num(df[i][c].n + scale * noise[c][i])
            ELSE NaN]]

\* for column in numeric_columns: protected[column] = protected[column] + noise.
\* A missing value plus a draw is a missing value.
perturbed(df, columns, scale, noise) ==
    [i \in RowIdx(df) |->
        [c \in Columns |->
            IF c \in columns /\ df[i][c].t = "num" THEN Num(df[i][c].n + scale * noise[c][i])
            ELSE df[i][c]]]

\* PrivacyTransformer._apply_differential_privacy, the draws being `noise`.
\* epsilon and sensitivity are whole numbers here, and scale = sensitivity / epsilon
\* an exact division.
apply_differential_privacy(df, parameters, noise) ==
    LET epsilon == Get(parameters, "epsilon", 1)
        sensitivity == Get(parameters, "sensitivity", 1)
    IN IF epsilon_rejected(epsilon) THEN Raised("ValueError")
       ELSE LET scale == sensitivity \div epsilon
                copy == copy_deep(df)
                columns == numeric_columns(copy.table)
            IN Returned([protected |-> perturbed(copy.table, columns, scale, noise),
                         aliased |-> copy.aliased,
                         info |-> [epsilon |-> epsilon, sensitivity |-> sensitivity,
                                   noise_scale |-> scale, columns |-> columns]])

\* Were the name kept as given.
Unlowered(name) == name

\* str.lower() of the technique names the model draws.
Lower(name) ==
    CASE name = "K_Anonymity" -> "k_anonymity"
      [] name = "Identity" -> "identity"
      [] name = "DP" -> "dp"
      [] OTHER -> name

\* PrivacyTransformer.__init__: stores its arguments, the name in lower case.
PrivacyTransformerInit(technique, qi, parameters) ==
    Returned([technique |-> Lower(technique), quasi_identifiers |-> qi,
              parameters |-> parameters])

\* PrivacyTransformer(technique, quasi_identifiers, parameters).apply(df)
PrivacyApply(technique, qi, parameters, df, noise) ==
    LET t == PrivacyTransformerInit(technique, qi, parameters).value.technique
    IN IF t \in {"none", "identity"}
       THEN LET copy == copy_deep(df)
            IN Returned([protected |-> copy.table, aliased |-> copy.aliased,
                         technique |-> "identity", parameters |-> parameters,
                         info |-> [message |-> "No transformation applied"]])
       ELSE IF t \in {"k_anonymity", "k-anonymity"}
       THEN LET r == apply_k_anonymity(df, qi, parameters)
            IN IF ~r.ok THEN r
               ELSE Returned([protected |-> r.value.protected, aliased |-> r.value.aliased,
                              technique |-> "k_anonymity", parameters |-> parameters,
                              info |-> r.value.info])
       ELSE IF t \in {"differential_privacy", "dp"}
       THEN LET r == apply_differential_privacy(df, parameters, noise)
            IN IF ~r.ok THEN r
               ELSE Returned([protected |-> r.value.protected, aliased |-> r.value.aliased,
                              technique |-> "differential_privacy", parameters |-> parameters,
                              info |-> r.value.info])
       ELSE Raised("ValueError")

----------------------------------------------------------------------------
(* Utility Evaluator: src/app/pipeline/utility/evaluator.py *)

\* DataFrame column order.
ColumnOrder == <<"age", "zipcode">>

rowcount_delta(original, protected) ==
    LET delta == Len(protected) - Len(original)
    IN [name |-> "rowcount_delta",
        value |-> IF Len(original) # 0 THEN Ratio(delta, Len(original)) ELSE Zero,
        details |-> [original_rows |-> Len(original), protected_rows |-> Len(protected),
                     delta |-> delta]]

\* series.dropna(): the positions that hold a value.
dropna(df, column) == {i \in RowIdx(df) : df[i][column].t # "nan"}

\* Series.mean() and Series.std(ddof=0) raise TypeError on a column that holds a string.
MeanRaises(df, column) == \E i \in dropna(df, column) : df[i][column].t = "str"

SumOf(df, column) == SumOver(dropna(df, column), [i \in RowIdx(df) |-> df[i][column].n])

SumSqOf(df, column) ==
    SumOver(dropna(df, column), [i \in RowIdx(df) |-> df[i][column].n * df[i][column].n])

\* The columns _numeric_aggregate_deltas reports on: numeric in the original,
\* with a value on both sides.
NumericReported(original, protected) ==
    {c \in Columns : /\ is_numeric_dtype(original, c)
                     /\ dropna(original, c) # {}
                     /\ dropna(protected, c) # {}}

\* Were the delta divided by |orig_mean| whatever the mean.
rel_delta_unguarded(mean_delta, orig_mean) ==
    Ratio(mean_delta.num * orig_mean.den, mean_delta.den * Abs(orig_mean.num))

\* mean_delta / np.abs(orig_mean) if orig_mean else mean_delta
rel_delta_of(mean_delta, orig_mean) ==
    IF orig_mean.num # 0
    THEN Ratio(mean_delta.num * orig_mean.den, mean_delta.den * Abs(orig_mean.num))
    ELSE mean_delta

\* The two metrics of one numeric column.  Means are sum / count, compared
\* exactly; the standard deviations are reported by their squares (the variances).
numeric_deltas_of(original, protected, c) ==
    LET no == Cardinality(dropna(original, c))
        np == Cardinality(dropna(protected, c))
        so == SumOf(original, c)
        sp == SumOf(protected, c)
        mean_delta == Ratio(Abs(so * np - sp * no), no * np)
        rel_delta == rel_delta_of(mean_delta, Ratio(so, no))
    IN <<[name |-> <<c, "_mean_delta">>, value |-> rel_delta,
          details |-> [orig_mean |-> Ratio(so, no), prot_mean |-> Ratio(sp, np),
                       abs_delta |-> mean_delta]],
         [name |-> <<c, "_std_delta">>,
          value |-> [orig_var |-> Ratio(no * SumSqOf(original, c) - so * so, no * no),
                     prot_var |-> Ratio(np * SumSqOf(protected, c) - sp * sp, np * np)],
          details |-> <<>>]>>

\* fillna("MISSING")
fillna(cell) == IF cell.t = "nan" THEN Str(<<"MISSING">>) ELSE cell

CountOf(df, column, cat) == Cardinality({i \in RowIdx(df) : fillna(df[i][column]) = cat})

\* Were the larger of the two frequencies taken.
larger(a, b) == IF a >= b THEN a ELSE b

\* min(orig_counts.get(cat, 0.0), prot_counts.get(cat, 0.0))
smaller(a, b) == IF a <= b THEN a ELSE b

categorical_overlap_of(original, protected, c) ==
    LET categories == {fillna(original[i][c]) : i \in RowIdx(original)}
                      \cup {fillna(protected[i][c]) : i \in RowIdx(protected)}
        on == Len(original)
        pn == Len(protected)
        \* min(oc / on, pc / pn) over the common denominator on * pn
        m == [cat \in categories |->
                 smaller(CountOf(original, c, cat) * pn, CountOf(protected, c, cat) * on)]
    IN [name |-> <<c, "_overlap">>,
        value |-> IF on = 0 \/ pn = 0 THEN Zero ELSE Ratio(SumOver(categories, m), on * pn),
        details |-> [unique_categories |-> Cardinality(categories)]]

RECURSIVE NumericMetrics(_, _, _)
NumericMetrics(original, protected, j) ==
    IF j > Len(ColumnOrder) THEN <<>>
    ELSE (IF ColumnOrder[j] \in NumericReported(original, protected)
          THEN numeric_deltas_of(original, protected, ColumnOrder[j]) ELSE <<>>)
         \o NumericMetrics(original, protected, j + 1)

RECURSIVE CategoricalMetrics(_, _, _)
CategoricalMetrics(original, protected, j) ==
    IF j > Len(ColumnOrder) THEN <<>>
    ELSE (IF ~is_numeric_dtype(original, ColumnOrder[j])
          THEN <<categorical_overlap_of(original, protected, ColumnOrder[j])>> ELSE <<>>)
         \o CategoricalMetrics(original, protected, j + 1)

\* UtilityEvaluator.evaluate(original_df, protected_df)
UtilityEvaluate(original, protected) ==
    IF \E c \in NumericReported(original, protected) : MeanRaises(protected, c)
    THEN Raised("TypeError")
    ELSE Returned(<<rowcount_delta(original, protected)>>
                  \o NumericMetrics(original, protected, 1)
                  \o CategoricalMetrics(original, protected, 1))

----------------------------------------------------------------------------
(* Pipeline Orchestrator: src/app/pipeline/orchestrator.py, and its caller
   execute_run: src/app/services/pipeline_service.py *)

NoFile == [kind |-> "missing", table |-> <<>>]

NoPath == [kind |-> "none", table |-> <<>>]

CsvFile(table) == [kind |-> "csv", table |-> table]

\* PipelineOrchestrator._load_dataframe
load_dataframe(file) ==
    IF file.kind = "none" THEN Raised("ValueError")
    ELSE IF file.kind = "missing" THEN Raised("FileNotFoundError")
    ELSE IF file.kind = "csv" THEN Returned(file.table)
    ELSE Raised("ValueError")

\* PipelineOrchestrator._extract_quasi_identifiers
extract_quasi_identifiers(cfg) ==
    IF Len(cfg.quasi_identifiers) = 0 THEN Raised("ValueError")
    ELSE Returned(cfg.quasi_identifiers)

\* value > n / d
Exceeds(value, n, d) == value.num * d > n * value.den

\* Were the list returned as the three rules leave it, with no fallback entry.
generate_recommendations_no_fallback(risk, utility) ==
    LET uniq == {i \in DOMAIN risk : risk[i].name = "uniques_rate"}
        link == {i \in DOMAIN risk : risk[i].name = "linkage_success_rate"}
        r1 == IF \E i \in uniq : Exceeds(risk[i].value, 1, 10) THEN <<"increase_k_or_noise">> ELSE <<>>
        r2 == IF \E i \in link : Exceeds(risk[i].value, 5, 100) THEN <<"stronger_controls">> ELSE <<>>
        r3 == IF \E i \in DOMAIN utility :
                    /\ utility[i].name # "rowcount_delta"
                    /\ utility[i].name[2] = "_mean_delta"
                    /\ Exceeds(utility[i].value, 2, 10)
              THEN <<"adjust_epsilon">> ELSE <<>>
    IN r1 \o r2 \o r3

\* PipelineOrchestrator._generate_recommendations
generate_recommendations(risk, utility) ==
    LET uniq == {i \in DOMAIN risk : risk[i].name = "uniques_rate"}
        link == {i \in DOMAIN risk : risk[i].name = "linkage_success_rate"}
        r1 == IF \E i \in uniq : Exceeds(risk[i].value, 1, 10) THEN <<"increase_k_or_noise">> ELSE <<>>
        r2 == IF \E i \in link : Exceeds(risk[i].value, 5, 100) THEN <<"stronger_controls">> ELSE <<>>
        r3 == IF \E i \in DOMAIN utility :
                    /\ utility[i].name # "rowcount_delta"
                    /\ utility[i].name[2] = "_mean_delta"
                    /\ Exceeds(utility[i].value, 2, 10)
              THEN <<"adjust_epsilon">> ELSE <<>>
        all == r1 \o r2 \o r3
    IN IF all = <<>> THEN <<"acceptable">> ELSE all

None == [set |-> FALSE]

\* The run identifier execute_run passes: str(run.id).
RunId == <<"1">>

\* run()'s run_id argument: None, or a string.
NoRunId == [given |-> FALSE, id |-> <<>>]

SomeRunId(id) == [given |-> TRUE, id |-> id]

\* `if run_id`, `run_id or None`: None and the empty string both count as absent.
HasRunId(rid) == rid.given /\ Len(rid.id) > 0

\* datetime.utcnow().strftime("%Y%m%dT%H%M%S"): the clock to the whole second;
\* two calls within one second format alike.
strftime(t) == NatStr(t)

\* _persist_protected_dataset: output_path = processed_data_dir / filename
protected_path(rid, t) ==
    [dir |-> "processed_data_dir",
     name |-> IF HasRunId(rid) THEN rid.id \o <<"_protected.csv">>
              ELSE <<"protected_">> \o strftime(t) \o <<".csv">>]

\* _generate_report and ReportGenerator.render: html_path = output_dir / (prefix + ".html")
report_path(rid, t) ==
    [dir |-> "reports_dir",
     name |-> IF HasRunId(rid) THEN rid.id \o <<".html">>
              ELSE <<"report_">> \o strftime(t) \o <<".html">>]

\* to_csv(output_path), write_text(html_content): the file at path is created or replaced.
write_file(fs, path, content) ==
    {f \in fs : f.path # path} \cup {[path |-> path, content |-> content]}

\* PipelineOrchestrator._build_report_context: what the template renders.  The
\* dataset stands for dataset_path.name.
build_report_context(dataset, rid, risk, utility) ==
    [dataset |-> dataset, run |-> rid,
     recommendations |-> generate_recommendations(risk, utility)]

NoResult ==
    [protected |-> <<>>, aliased |-> FALSE, technique |-> "", parameters |-> <<>>, info |-> <<>>]

\* The order, were the protected dataset persisted before the utility evaluation.
NextStagePersistFirst(stage) ==
    CASE stage = "load" -> "extract"
      [] stage = "extract" -> "risk"
      [] stage = "risk" -> "transform"
      [] stage = "transform" -> "persist"
      [] stage = "persist" -> "utility"
      [] stage = "utility" -> "report"
      [] stage = "report" -> "return"
      [] stage = "return" -> "returned"

\* The order of the statements of run(): the stage that follows `stage` when it
\* did not raise.
NextStage(stage) ==
    CASE stage = "load" -> "extract"
      [] stage = "extract" -> "risk"
      [] stage = "risk" -> "transform"
      [] stage = "transform" -> "utility"
      [] stage = "utility" -> "persist"
      [] stage = "persist" -> "report"
      [] stage = "report" -> "return"
      [] stage = "return" -> "returned"

\* A step of run() raised: nothing catches it there, so run() is left at once.
Raise(kind) ==
    /\ pc' = "raised"
    /\ error' = kind

Enter(stage, args) == trace' = Append(trace, [stage |-> stage, args |-> args])

\* execute_run up to the call of orchestrator.run: the status is committed as running.
StartRun ==
    /\ pc = "created"
    /\ status' = "running"
    /\ pc' = "load"
    /\ UNCHANGED <<dataset_file, identifier_file, config, original_df, identifier_df,
                   quasi_identifiers, risk_metrics, privacy_result, utility_metrics, files,
                   artifacts, error, trace>>
    /\ UNCHANGED <<run_id, now>>

\* run(): original_df = _load_dataframe(dataset_path); identifier_df likewise when a path is given.
Load ==
    /\ pc = "load"
    /\ Enter("load", <<>>)
    /\ LET d == load_dataframe(dataset_file)
           r == load_dataframe(identifier_file)
       IN IF ~d.ok THEN Raise(d.error) /\ UNCHANGED <<original_df, identifier_df>>
          ELSE IF identifier_file.kind # "none" /\ ~r.ok
          THEN Raise(r.error) /\ original_df' = d.value /\ UNCHANGED identifier_df
          ELSE /\ original_df' = d.value
               /\ identifier_df' = IF identifier_file.kind # "none" THEN Given(r.value)
                                   ELSE NoDataFrame
               /\ pc' = NextStage("load")
               /\ UNCHANGED error
    /\ UNCHANGED <<dataset_file, identifier_file, config, status, quasi_identifiers,
                   risk_metrics, privacy_result, utility_metrics, files, artifacts>>
    /\ UNCHANGED <<run_id, now>>

\* run(): quasi_identifiers = _extract_quasi_identifiers(config)
ExtractQI ==
    /\ pc = "extract"
    /\ Enter("extract", <<>>)
    /\ LET q == extract_quasi_identifiers(config)
       IN IF ~q.ok THEN Raise(q.error) /\ UNCHANGED quasi_identifiers
          ELSE quasi_identifiers' = q.value /\ pc' = NextStage("extract") /\ UNCHANGED error
    /\ UNCHANGED <<dataset_file, identifier_file, config, status, original_df, identifier_df,
                   risk_metrics, privacy_result, utility_metrics, files, artifacts>>
    /\ UNCHANGED <<run_id, now>>

\* run(): risk_metrics = _compute_risk(original_df, quasi_identifiers, identifier_df)
ComputeRisk ==
    /\ pc = "risk"
    /\ Enter("risk", <<original_df>>)
    /\ LET r == RiskEvaluate(quasi_identifiers, original_df, identifier_df)
       IN IF ~r.ok THEN Raise(r.error) /\ UNCHANGED risk_metrics
          ELSE risk_metrics' = r.value /\ pc' = NextStage("risk") /\ UNCHANGED error
    /\ UNCHANGED <<dataset_file, identifier_file, config, status, original_df, identifier_df,
                   quasi_identifiers, privacy_result, utility_metrics, files, artifacts>>
    /\ UNCHANGED <<run_id, now>>

\* run(): privacy_result = _apply_privacy(original_df, quasi_identifiers, config).
\* original_df names the object handed in: it changes only if the transformer
\* wrote to that object instead of a copy.
ApplyPrivacy ==
    /\ pc = "transform"
    /\ Enter("transform", <<original_df>>)
    /\ \E noise \in NoiseDraws(config.privacy_technique, config.privacy_parameters, original_df) :
          LET r == PrivacyApply(config.privacy_technique, quasi_identifiers,
                                config.privacy_parameters, original_df, noise)
          IN IF ~r.ok THEN Raise(r.error) /\ UNCHANGED <<privacy_result, original_df>>
             ELSE /\ privacy_result' = r.value
                  /\ original_df' = IF r.value.aliased THEN r.value.protected ELSE original_df
                  /\ pc' = NextStage("transform")
                  /\ UNCHANGED error
    /\ UNCHANGED <<dataset_file, identifier_file, config, status, identifier_df,
                   quasi_identifiers, risk_metrics, utility_metrics, files, artifacts>>
    /\ UNCHANGED <<run_id, now>>

\* run(): utility_metrics = _compute_utility(original_df, protected_df, quasi_identifiers)
ComputeUtility ==
    /\ pc = "utility"
    /\ Enter("utility", <<original_df, privacy_result.protected>>)
    /\ LET r == UtilityEvaluate(original_df, privacy_result.protected)
       IN IF ~r.ok THEN Raise(r.error) /\ UNCHANGED utility_metrics
          ELSE utility_metrics' = r.value /\ pc' = NextStage("utility") /\ UNCHANGED error
    /\ UNCHANGED <<dataset_file, identifier_file, config, status, original_df, identifier_df,
                   quasi_identifiers, risk_metrics, privacy_result, files, artifacts>>
    /\ UNCHANGED <<run_id, now>>

\* PipelineOrchestrator._persist_protected_dataset
Persist ==
    /\ pc = "persist"
    /\ Enter("persist", <<privacy_result.protected>>)
    /\ files' = write_file(files, protected_path(run_id, now), privacy_result.protected)
    /\ pc' = NextStage("persist")
    /\ UNCHANGED <<dataset_file, identifier_file, config, status, original_df, identifier_df,
                   quasi_identifiers, risk_metrics, privacy_result, utility_metrics,
                   artifacts, error>>
    /\ UNCHANGED <<run_id, now>>

\* PipelineOrchestrator._generate_report, ReportGenerator.render
GenerateReport ==
    /\ pc = "report"
    /\ Enter("report", <<>>)
    /\ files' = write_file(files, report_path(run_id, now),
                            build_report_context(dataset_file, run_id, risk_metrics,
                                                 utility_metrics))
    /\ pc' = NextStage("report")
    /\ UNCHANGED <<dataset_file, identifier_file, config, status, original_df, identifier_df,
                   quasi_identifiers, risk_metrics, privacy_result, utility_metrics,
                   artifacts, error>>
    /\ UNCHANGED <<run_id, now>>

\* run(): return PipelineArtifacts(...)
Return ==
    /\ pc = "return"
    /\ Enter("return", <<>>)
    /\ artifacts' = [set |-> TRUE,
                     protected_dataset_path |-> protected_path(run_id, now),
                     report_html_path |-> report_path(run_id, now),
                     risk_metrics |-> risk_metrics,
                     privacy_info |-> privacy_result.info,
                     utility_metrics |-> utility_metrics]
    /\ pc' = NextStage("return")
    /\ UNCHANGED <<dataset_file, identifier_file, config, status, original_df, identifier_df,
                   quasi_identifiers, risk_metrics, privacy_result, utility_metrics, files,
                   error>>
    /\ UNCHANGED <<run_id, now>>

\* execute_run after orchestrator.run returned: the run is committed as completed.
FinishRun ==
    /\ pc = "returned"
    /\ status' = "completed"
    /\ pc' = "done"
    /\ UNCHANGED <<dataset_file, identifier_file, config, original_df, identifier_df,
                   quasi_identifiers, risk_metrics, privacy_result, utility_metrics, files,
                   artifacts, error, trace>>
    /\ UNCHANGED <<run_id, now>>

\* execute_run when orchestrator.run raised: there is no handler, neither in
\* execute_run nor in trigger_pipeline_run, so the exception leaves both and the
\* committed status stays what it was.
Propagate ==
    /\ pc = "raised"
    /\ pc' = "propagated"
    /\ UNCHANGED <<dataset_file, identifier_file, config, status, original_df, identifier_df,
                   quasi_identifiers, risk_metrics, privacy_result, utility_metrics, files,
                   artifacts, error, trace>>
    /\ UNCHANGED <<run_id, now>>

----------------------------------------------------------------------------
(* The inputs *)

QIChoices == {<<>>, <<"age">>, <<"zipcode">>, <<"age", "zipcode">>, <<"zipcode", "ssn">>}

PipelineQIs == {<<>>, <<"zipcode">>, <<"age", "zipcode">>, <<"zipcode", "ssn">>}

KAnonParameters ==
    {[k |-> k, generalise_numeric |-> g] : k \in 1..MaxK, g \in BOOLEAN}
    \cup {[k |-> k, bin_count |-> 1] : k \in 1..MaxK}

OtherTechniques ==
    {[privacy_technique |-> "identity", privacy_parameters |-> <<>>],
     [privacy_technique |-> "l_diversity", privacy_parameters |-> <<>>],
     [privacy_technique |-> "k_anonymity", privacy_parameters |-> <<>>],
     [privacy_technique |-> "differential_privacy", privacy_parameters |-> <<>>],
     [privacy_technique |-> "differential_privacy", privacy_parameters |-> [epsilon |-> 0]]}

\* The configurations the whole pipeline is run under.
PipelineTechniques ==
    OtherTechniques
    \cup {[privacy_technique |-> "k_anonymity",
           privacy_parameters |-> [k |-> 2, generalise_numeric |-> FALSE]],
          [privacy_technique |-> "K_Anonymity", privacy_parameters |-> [k |-> 2, bin_count |-> 1]],
          [privacy_technique |-> "Identity", privacy_parameters |-> <<>>]}

\* The k-anonymity configurations the transformer alone is run under.
TransformerTechniques ==
    {[privacy_technique |-> "k_anonymity", privacy_parameters |-> p] : p \in KAnonParameters}

\* The differential-privacy configurations the transformer alone is run under.
DPTechniques ==
    {[privacy_technique |-> "differential_privacy",
      privacy_parameters |-> [epsilon |-> 2, sensitivity |-> 4]],
     [privacy_technique |-> "DP", privacy_parameters |-> [epsilon |-> -1]]}

ConfigsOf(techniques, qis) ==
    {[quasi_identifiers |-> q, privacy_technique |-> t.privacy_technique,
      privacy_parameters |-> t.privacy_parameters] : q \in qis, t \in techniques}

\* After create_run: the run is stored with status created; nothing has run.
Init ==
    /\ dataset_file \in {NoFile} \cup {CsvFile(t) : t \in Datasets}
    /\ identifier_file \in {NoPath, NoFile, dataset_file}
    /\ config \in {c \in ConfigsOf(PipelineTechniques, PipelineQIs) :
                       \* differential privacy reads no quasi-identifier: one list that passes
                       c.privacy_technique = "differential_privacy"
                           => c.quasi_identifiers \in {<<>>, <<"zipcode">>}}
    /\ status = "created"
    /\ pc = "created"
    /\ original_df = <<>>
    /\ identifier_df = NoDataFrame
    /\ quasi_identifiers = <<>>
    /\ risk_metrics = <<>>
    /\ privacy_result = NoResult
    /\ utility_metrics = <<>>
    /\ files = {}
    /\ artifacts = None
    /\ error = ""
    /\ trace = <<>>
    /\ run_id = SomeRunId(RunId)
    /\ now = 0

Next ==
    \/ StartRun
    \/ Load
    \/ ExtractQI
    \/ ComputeRisk
    \/ ApplyPrivacy
    \/ ComputeUtility
    \/ Persist
    \/ GenerateReport
    \/ Return
    \/ FinishRun
    \/ Propagate

Spec == Init /\ [][Next]_vars

----------------------------------------------------------------------------
(* The Risk Analyzer on its own: RiskAnalyzer(qi).evaluate(df, reference) *)

MaxRefRows == 2

\* A row no row of df equals in any column, typed like df's columns.
Outsider(df) ==
    [c \in Columns |-> IF is_numeric_dtype(df, c) THEN Num(9) ELSE Str(<<"z">>)]

\* Reference tables: up to MaxRefRows rows, each a copy of df's first row or an outsider.
References(df) ==
    LET rows == {Outsider(df)} \cup {df[i] : i \in RowIdx(df) \cap {1}}
    IN UNION {[1..n -> rows] : n \in 0..MaxRefRows}

InitRisk ==
    /\ original_df \in Datasets
    /\ identifier_df \in {NoDataFrame} \cup {Given(r) : r \in References(original_df)}
    /\ quasi_identifiers \in QIChoices
    /\ dataset_file = CsvFile(original_df)
    /\ identifier_file = IF identifier_df.given THEN CsvFile(identifier_df.df) ELSE NoPath
    /\ config = [quasi_identifiers |-> quasi_identifiers, privacy_technique |-> "identity",
                 privacy_parameters |-> <<>>]
    /\ status = "running"
    /\ pc = "risk"
    /\ risk_metrics = <<>>
    /\ privacy_result = NoResult
    /\ utility_metrics = <<>>
    /\ files = {}
    /\ artifacts = None
    /\ error = ""
    /\ trace = <<>>
    /\ run_id = SomeRunId(RunId)
    /\ now = 0

SpecRisk == InitRisk /\ [][ComputeRisk]_vars

----------------------------------------------------------------------------
(* The Privacy Transformer on its own, followed by the Utility Evaluator on
   (input, output): PrivacyTransformer(technique, qi, parameters).apply(df) *)

InitPrivacy ==
    /\ original_df \in Datasets
    /\ config \in ConfigsOf(TransformerTechniques, QIChoices)
                   \cup ConfigsOf(OtherTechniques, {<<>>, <<"zipcode">>})
                   \cup ConfigsOf(DPTechniques, {<<"zipcode">>})
    /\ quasi_identifiers = config.quasi_identifiers
    /\ identifier_df = NoDataFrame
    /\ dataset_file = CsvFile(original_df)
    /\ identifier_file = NoPath
    /\ status = "running"
    /\ pc = "transform"
    /\ risk_metrics = <<>>
    /\ privacy_result = NoResult
    /\ utility_metrics = <<>>
    /\ files = {}
    /\ artifacts = None
    /\ error = ""
    /\ trace = <<>>
    /\ run_id = SomeRunId(RunId)
    /\ now = 0

NextPrivacy ==
    \/ ApplyPrivacy
    \/ ComputeUtility

SpecPrivacy == InitPrivacy /\ [][NextPrivacy]_vars

----------------------------------------------------------------------------
(* Several invocations of PipelineOrchestrator.run at once, each on its own
   dataset, from the point where each holds its protected dataset: pc, run_id,
   dataset_file, privacy_result and artifacts are kept per invocation; files is
   the one file system and now the one clock they share. *)

MaxRuns == 2

MaxClock == 1

Runs == 1..MaxRuns

\* The dataset of invocation r: no two invocations are given the same one.
DatasetOf(r) == <<[age |-> Num(r), zipcode |-> Str(<<"a">>)]>>

\* run()'s locals protected_path and report_paths before they are assigned.
NoArtifacts ==
    [set |-> FALSE, protected_dataset_path |-> [dir |-> "", name |-> <<>>],
     report_html_path |-> [dir |-> "", name |-> <<>>]]

InitConcurrent ==
    /\ run_id \in {[r \in Runs |-> NoRunId], [r \in Runs |-> SomeRunId(NatStr(r))]}
    /\ dataset_file = [r \in Runs |-> CsvFile(DatasetOf(r))]
    /\ privacy_result = [r \in Runs |-> [NoResult EXCEPT !.protected = DatasetOf(r),
                                                         !.technique = "identity"]]
    /\ pc = [r \in Runs |-> "persist"]
    /\ artifacts = [r \in Runs |-> NoArtifacts]
    /\ files = {}
    /\ now = 0
    /\ config = [quasi_identifiers |-> <<"age">>, privacy_technique |-> "identity",
                 privacy_parameters |-> <<>>]
    /\ quasi_identifiers = config.quasi_identifiers
    /\ identifier_file = NoPath
    /\ original_df = <<>>
    /\ identifier_df = NoDataFrame
    /\ status = "running"
    /\ risk_metrics = <<>>
    /\ utility_metrics = <<>>
    /\ error = ""
    /\ trace = <<>>

\* The clock passes to the next second.
Tick ==
    /\ now < MaxClock
    /\ now' = now + 1
    /\ UNCHANGED <<dataset_file, identifier_file, config, status, pc, original_df,
                   identifier_df, quasi_identifiers, risk_metrics, privacy_result,
                   utility_metrics, files, artifacts, error, trace, run_id>>

\* Invocation r: protected_path = _persist_protected_dataset(protected_df, run_id)
PersistOf(r) ==
    /\ pc[r] = "persist"
    /\ LET path == protected_path(run_id[r], now)
       IN /\ files' = write_file(files, path, privacy_result[r].protected)
          /\ artifacts' = [artifacts EXCEPT ![r].protected_dataset_path = path]
    /\ pc' = [pc EXCEPT ![r] = NextStage("persist")]
    /\ UNCHANGED <<dataset_file, identifier_file, config, status, original_df, identifier_df,
                   quasi_identifiers, risk_metrics, privacy_result, utility_metrics,
                   error, trace, run_id, now>>

\* Invocation r: report_paths = _generate_report(..., run_id=run_id)
GenerateReportOf(r) ==
    /\ pc[r] = "report"
    /\ LET path == report_path(run_id[r], now)
       IN /\ files' = write_file(files, path,
                                  build_report_context(dataset_file[r], run_id[r],
                                                       risk_metrics, utility_metrics))
          /\ artifacts' = [artifacts EXCEPT ![r].report_html_path = path]
    /\ pc' = [pc EXCEPT ![r] = NextStage("report")]
    /\ UNCHANGED <<dataset_file, identifier_file, config, status, original_df, identifier_df,
                   quasi_identifiers, risk_metrics, privacy_result, utility_metrics,
                   error, trace, run_id, now>>

\* Invocation r: return PipelineArtifacts(...)
ReturnOf(r) ==
    /\ pc[r] = "return"
    /\ artifacts' = [artifacts EXCEPT ![r].set = TRUE]
    /\ pc' = [pc EXCEPT ![r] = NextStage("return")]
    /\ UNCHANGED <<dataset_file, identifier_file, config, status, original_df, identifier_df,
                   quasi_identifiers, risk_metrics, privacy_result, utility_metrics, files,
                   error, trace, run_id, now>>

NextConcurrent ==
    \/ Tick
    \/ \E r \in Runs : PersistOf(r)
    \/ \E r \in Runs : GenerateReportOf(r)
    \/ \E r \in Runs : ReturnOf(r)

SpecConcurrent == InitConcurrent /\ [][NextConcurrent]_vars

----------------------------------------------------------------------------
(* The backend service, src/SafeDataTool_Backend/app: PrivacyTransformer.transform
   followed by UtilityEvaluator.evaluate, steps 2 and 3 of its
   PipelineOrchestrator.run.  Both work on CSV files; the tables carry a third
   column, income, that no quasi-identifier list names. *)

BackendColumns == {"age", "zipcode", "income"}

BackendColumnOrder == <<"age", "zipcode", "income">>

WithIncome(df) ==
    [i \in RowIdx(df) |->
        [c \in BackendColumns |-> IF c = "income" THEN Num(i) ELSE df[i][c]]]

BackendDatasets == {WithIncome(df) : df \in Datasets}

STAR == Str(<<"*">>)

\* group_sizes = qid_subset.groupby(quasi_identifiers).size(), looked up with
\* tuple(row.values): the number of rows holding row i's combination.
backend_group_size(df, qi, i) ==
    Cardinality({j \in GroupedRows(df, qi) : QITuple(df[j], qi) = QITuple(df[i], qi)})

\* The mask, were a group of exactly k rows not kept.
kept_above_k(size, k) == size > k

\* mask: group_sizes[tuple(row.values)] >= k
kept(size, k) == size >= k

\* KAnonymityTransformer.transform: the outcomes it can have.  A list naming a
\* column df lacks fails at df[quasi_identifiers]; an empty list at groupby; a
\* one-column list gives group_sizes a flat index, which a tuple does not look
\* up; a combination holding a missing value is in no group; on a table without
\* rows apply hands back a frame, not a mask, and what .loc makes of it is left open.
KAnonymityTransformer_transform(df, qi, k) ==
    IF \E j \in 1..Len(qi) : qi[j] \notin BackendColumns THEN {Raised("KeyError")}
    ELSE IF Len(qi) = 0 THEN {Raised("ValueError")}
    ELSE IF Len(df) = 0 THEN {Raised("KeyError"), Returned(df)}
    ELSE IF Len(qi) = 1 THEN {Raised("KeyError")}
    ELSE IF GroupedRows(df, qi) # RowIdx(df) THEN {Raised("KeyError")}
    ELSE {Returned([i \in RowIdx(df) |->
                      [c \in BackendColumns |->
                          IF /\ \E j \in 1..Len(qi) : qi[j] = c
                             /\ ~kept(backend_group_size(df, qi, i), k)
                          THEN STAR ELSE df[i][c]]])}

\* The draws of np.random.laplace, in steps of the scale.
LaplaceSteps == {-2, 2}

\* One draw per row for each numeric quasi-identifier column, none for another
\* column (written 0).
ColumnDraws(technique, df, qi, c) ==
    IF /\ technique = "differential_privacy"
       /\ \E j \in 1..Len(qi) : qi[j] = c
       /\ is_numeric_dtype(df, c)
    THEN [RowIdx(df) -> LaplaceSteps]
    ELSE {[i \in RowIdx(df) |-> 0]}

BackendNoiseDraws(technique, df, qi) ==
    {[c \in BackendColumns |-> CASE c = "age" -> a [] c = "zipcode" -> z [] c = "income" -> n] :
        a \in ColumnDraws(technique, df, qi, "age"),
        z \in ColumnDraws(technique, df, qi, "zipcode"),
        n \in ColumnDraws(technique, df, qi, "income")}

\* col_range = df[col].max() - df[col].min(); sensitivity = col_range if col_range > 0 else 1.0
backend_sensitivity(df, c) ==
    LET present == {df[i][c].n : i \in dropna(df, c)}
        col_range == IF present = {} THEN 0 ELSE -MinOf({-x : x \in present}) - MinOf(present)
    IN IF col_range > 0 THEN col_range ELSE 1

\* DifferentialPrivacyTransformer.transform, the draws being `noise`; epsilon is a
\* positive whole number and scale = sensitivity / epsilon an exact division.
DifferentialPrivacyTransformer_transform(df, qi, epsilon, noise) ==
    IF \E j \in 1..Len(qi) : qi[j] \notin BackendColumns THEN {Raised("KeyError")}
    ELSE {Returned([i \in RowIdx(df) |->
                      [c \in BackendColumns |->
                          IF /\ \E j \in 1..Len(qi) : qi[j] = c
                             /\ is_numeric_dtype(df, c)
                             /\ df[i][c].t = "num"
                          THEN Num(df[i][c].n
                                   + (backend_sensitivity(df, c) \div epsilon) * noise[c][i])
                          ELSE df[i][c]]])}

BackendDefaultK == 5

\* PrivacyTransformer.transform: the dispatch on the technique name.
PrivacyTransformer_transform(df, technique, qi, parameters, noise) ==
    IF technique = "k_anonymity"
    THEN KAnonymityTransformer_transform(df, qi, Get(parameters, "k", BackendDefaultK))
    ELSE IF technique = "differential_privacy"
    THEN DifferentialPrivacyTransformer_transform(df, qi, Get(parameters, "epsilon", 1), noise)
    ELSE {Raised("ValueError")}

\* to_csv(index=False) then read_csv: a column holding a string comes back as
\* strings throughout, its numbers as their digits.
csv_round_trip(df) ==
    [i \in RowIdx(df) |->
        [c \in BackendColumns |->
            IF df[i][c].t = "num" /\ \E r \in RowIdx(df) : df[r][c].t = "str"
            THEN Str(IntStr(df[i][c].n)) ELSE df[i][c]]]

\* output_path = output_dir / f"protected_{dataset_path.name}"
backend_output_path == [dir |-> "data/processed", name |-> <<"protected_", "dataset.csv">>]

\* A float that is not a number.
NaNRatio == Ratio(0, 0)

\* Series.mean(): missing values are skipped; nan when none is left.
mean_of(df, c) ==
    IF dropna(df, c) = {} THEN NaNRatio
    ELSE Ratio(SumOf(df, c), Cardinality(dropna(df, c)))

RatioAdd(a, b) ==
    IF a.den = 0 \/ b.den = 0 THEN NaNRatio
    ELSE Ratio(a.num * b.den + b.num * a.den, a.den * b.den)

\* if orig_mean != 0: mean_diff += abs(orig_mean - prot_mean) / abs(orig_mean).
\* nan != 0 holds, and the term is then nan.
relative_mean_difference(orig_mean, prot_mean) ==
    IF orig_mean.den = 0 \/ prot_mean.den = 0 THEN NaNRatio
    ELSE IF orig_mean.num = 0 THEN Zero
    ELSE Ratio(Abs(orig_mean.num * prot_mean.den - prot_mean.num * orig_mean.den),
               prot_mean.den * Abs(orig_mean.num))

\* The loop over numeric_cols, from the j-th on.
RECURSIVE mean_diff_from(_, _, _, _)
mean_diff_from(original, protected, numeric_cols, j) ==
    IF j > Len(numeric_cols) THEN Zero
    ELSE RatioAdd(relative_mean_difference(mean_of(original, numeric_cols[j]),
                                           mean_of(protected, numeric_cols[j])),
                  mean_diff_from(original, protected, numeric_cols, j + 1))

\* UtilityEvaluator.evaluate on the two tables read_csv gives.  mean() of a
\* column that holds a string raises TypeError.  The distribution_similarity
\* metric (scipy's ks_2samp, inside try/except) is left out of the list.
UtilityEvaluator_evaluate(original, protected) ==
    LET IsNumeric(c) == is_numeric_dtype(original, c)
        numeric_cols == SelectSeq(BackendColumnOrder, IsNumeric)
        total == mean_diff_from(original, protected, numeric_cols, 1)
        mean_diff == Ratio(total.num, total.den * Len(numeric_cols))
        total_cells == Len(original) * Cardinality(BackendColumns)
        suppressed_cells ==
            Cardinality({<<i, c>> \in RowIdx(protected) \X BackendColumns :
                            protected[i][c] = STAR})
        completeness == IF total_cells > 0
                        THEN Ratio(total_cells - suppressed_cells, total_cells)
                        ELSE Ratio(1, 1)
    IN IF \E j \in 1..Len(numeric_cols) : MeanRaises(protected, numeric_cols[j])
       THEN Raised("TypeError")
       ELSE Returned(
              (IF Len(numeric_cols) > 0
               THEN <<[name |-> "mean_preservation",
                       value |-> Ratio(mean_diff.den - mean_diff.num, mean_diff.den),
                       details |-> [mean_difference |-> mean_diff]]>>
               ELSE <<>>)
              \o <<[name |-> "data_completeness", value |-> completeness,
                    details |-> [suppressed_cells |-> suppressed_cells,
                                 total_cells |-> total_cells]]>>)

\* run(), step 2: protected_path = self.privacy_transformer.transform(...)
BackendTransform ==
    /\ pc = "transform"
    /\ \E noise \in BackendNoiseDraws(config.privacy_technique, dataset_file.table,
                                       quasi_identifiers) :
       \E r \in PrivacyTransformer_transform(dataset_file.table, config.privacy_technique,
                                             quasi_identifiers, config.privacy_parameters,
                                             noise) :
          IF ~r.ok THEN Raise(r.error) /\ UNCHANGED <<privacy_result, files>>
          ELSE /\ privacy_result' = [NoResult EXCEPT !.protected = r.value,
                                                     !.technique = config.privacy_technique,
                                                     !.parameters = config.privacy_parameters]
               /\ files' = write_file(files, backend_output_path, csv_round_trip(r.value))
               /\ pc' = "utility"
               /\ UNCHANGED error
    /\ UNCHANGED <<dataset_file, identifier_file, config, status, original_df, identifier_df,
                   quasi_identifiers, risk_metrics, utility_metrics, artifacts, trace,
                   run_id, now>>

\* run(), step 3: utility_results = self.utility_evaluator.evaluate(...)
BackendEvaluate ==
    /\ pc = "utility"
    /\ LET protected == CHOOSE f \in files : f.path = backend_output_path
           r == UtilityEvaluator_evaluate(dataset_file.table, protected.content)
       IN IF ~r.ok THEN Raise(r.error) /\ UNCHANGED utility_metrics
          ELSE utility_metrics' = r.value /\ pc' = "report" /\ UNCHANGED error
    /\ UNCHANGED <<dataset_file, identifier_file, config, status, original_df, identifier_df,
                   quasi_identifiers, risk_metrics, privacy_result, files, artifacts, trace,
                   run_id, now>>

BackendTechniques ==
    {[privacy_technique |-> "k_anonymity", privacy_parameters |-> [k |-> k]] : k \in 0..MaxK}
    \cup {[privacy_technique |-> "k_anonymity", privacy_parameters |-> <<>>],
          [privacy_technique |-> "differential_privacy", privacy_parameters |-> [epsilon |-> 1]],
          [privacy_technique |-> "identity", privacy_parameters |-> <<>>]}

BackendQIs == QIChoices \cup {<<"age", "income">>}

InitBackend ==
    /\ original_df \in BackendDatasets
    /\ dataset_file = CsvFile(original_df)
    /\ config \in ConfigsOf(BackendTechniques, BackendQIs)
    /\ quasi_identifiers = config.quasi_identifiers
    /\ identifier_file = NoPath
    /\ identifier_df = NoDataFrame
    /\ status = "running"
    /\ pc = "transform"
    /\ risk_metrics = <<>>
    /\ privacy_result = NoResult
    /\ utility_metrics = <<>>
    /\ files = {}
    /\ artifacts = None
    /\ error = ""
    /\ trace = <<>>
    /\ run_id = SomeRunId(RunId)
    /\ now = 0

NextBackend ==
    \/ BackendTransform
    \/ BackendEvaluate

SpecBackend == InitBackend /\ [][NextBackend]_vars

----------------------------------------------------------------------------
(* The backend service with settings.use_background_jobs: for each run,
   create_pipeline_run in the web process and execute_pipeline_task in a worker
   process, each with its own database session.  status[r] is the committed
   status of run r; pc[r] tells where its creator and its worker stand.  What the
   orchestrator does inside the task shows here only as its outcome: it returns
   or it raises. *)

\* The run is committed with status created (pipeline_service.py:71-79);
\* the task is not yet queued.
InitBackground ==
    /\ status = [r \in Runs |-> "created"]
    /\ pc = [r \in Runs |-> [creator |-> "enqueue", worker |-> "unqueued"]]
    /\ run_id = [r \in Runs |-> SomeRunId(NatStr(r))]
    /\ dataset_file = [r \in Runs |-> CsvFile(DatasetOf(r))]
    /\ identifier_file = NoPath
    /\ config = [quasi_identifiers |-> <<"age">>, privacy_technique |-> "k_anonymity",
                 privacy_parameters |-> <<>>]
    /\ quasi_identifiers = config.quasi_identifiers
    /\ original_df = <<>>
    /\ identifier_df = NoDataFrame
    /\ risk_metrics = <<>>
    /\ privacy_result = NoResult
    /\ utility_metrics = <<>>
    /\ files = {}
    /\ artifacts = None
    /\ error = ""
    /\ trace = <<>>
    /\ now = 0

\* create_pipeline_run: task = execute_pipeline_task.delay(run.id)
Enqueue(r) ==
    /\ pc[r].creator = "enqueue"
    /\ pc' = [pc EXCEPT ![r] = [creator |-> "mark_queued", worker |-> "queued"]]
    /\ UNCHANGED <<dataset_file, identifier_file, config, status, original_df, identifier_df,
                   quasi_identifiers, risk_metrics, privacy_result, utility_metrics, files,
                   artifacts, error, trace, run_id, now>>

\* create_pipeline_run: run.status = "queued"; session.add(run); session.commit()
MarkQueued(r) ==
    /\ pc[r].creator = "mark_queued"
    /\ status' = [status EXCEPT ![r] = "queued"]
    /\ pc' = [pc EXCEPT ![r].creator = "returned"]
    /\ UNCHANGED <<dataset_file, identifier_file, config, original_df, identifier_df,
                   quasi_identifiers, risk_metrics, privacy_result, utility_metrics, files,
                   artifacts, error, trace, run_id, now>>

\* execute_pipeline_task: run = session.get(...); run.status = "running"; commit
TaskStart(r) ==
    /\ pc[r].worker = "queued"
    /\ status' = [status EXCEPT ![r] = "running"]
    /\ pc' = [pc EXCEPT ![r].worker = "running"]
    /\ UNCHANGED <<dataset_file, identifier_file, config, original_df, identifier_df,
                   quasi_identifiers, risk_metrics, privacy_result, utility_metrics, files,
                   artifacts, error, trace, run_id, now>>

\* execute_pipeline_task: orchestrator.run returned; run.status = "completed"; commit
TaskComplete(r) ==
    /\ pc[r].worker = "running"
    /\ status' = [status EXCEPT ![r] = "completed"]
    /\ pc' = [pc EXCEPT ![r].worker = "returned"]
    /\ UNCHANGED <<dataset_file, identifier_file, config, original_df, identifier_df,
                   quasi_identifiers, risk_metrics, privacy_result, utility_metrics, files,
                   artifacts, error, trace, run_id, now>>

\* execute_pipeline_task: except Exception: run.status = "failed"; commit
TaskFail(r) ==
    /\ pc[r].worker = "running"
    /\ status' = [status EXCEPT ![r] = "failed"]
    /\ pc' = [pc EXCEPT ![r].worker = "returned"]
    /\ UNCHANGED <<dataset_file, identifier_file, config, original_df, identifier_df,
                   quasi_identifiers, risk_metrics, privacy_result, utility_metrics, files,
                   artifacts, error, trace, run_id, now>>

NextBackground ==
    \/ \E r \in Runs : Enqueue(r)
    \/ \E r \in Runs : MarkQueued(r)
    \/ \E r \in Runs : TaskStart(r)
    \/ \E r \in Runs : TaskComplete(r)
    \/ \E r \in Runs : TaskFail(r)

SpecBackground == InitBackground /\ [][NextBackground]_vars

----------------------------------------------------------------------------
(* Properties *)

LastStage == IF trace = <<>> THEN "" ELSE trace[Len(trace)].stage

\* The transformer has returned a k-anonymity result for original_df.
KAnonApplied == privacy_result.technique = "k_anonymity"

KOf == privacy_result.info.k

\* Rows sharing row i's values in the given columns.
ClassOf(df, columns, i) ==
    {j \in RowIdx(df) : \A c \in columns : df[j][c] = df[i][c]}

QISet == {quasi_identifiers[j] : j \in DOMAIN quasi_identifiers}

\* The quasi-identifier columns the transformer does not hand to numeric
\* generalisation: non-numeric, or generalise_numeric false.
NotGeneralised ==
    {c \in QISet : ~(Get(privacy_result.parameters, "generalise_numeric", TRUE)
                     /\ is_numeric_dtype(original_df, c))}

SameRatio(a, b) == a.num * b.den = b.num * a.den

InUnit(r) == 0 <= r.num /\ r.num <= r.den

MetricNamed(metrics, name) ==
    metrics[CHOOSE i \in DOMAIN metrics : metrics[i].name = name]

RiskDone == risk_metrics # <<>>

\* C1: after k_anonymity with k >= 1, every equivalence class of the output (rows
\* sharing all quasi-identifier values) has at least k rows.
C1_KAnonymityGuarantee ==
    (KAnonApplied /\ KOf >= 1)
        => \A i \in RowIdx(privacy_result.protected) :
              Cardinality(ClassOf(privacy_result.protected, QISet, i)) >= KOf

\* C2: in every quasi-identifier column that is not numerically generalised, the
\* output cell is suppression_value exactly for the rows whose equivalence class in
\* the input has fewer than k rows, and the input's value for every other row.
C2_SuppressionExact ==
    KAnonApplied
        => \A c \in NotGeneralised : \A i \in RowIdx(original_df) :
              LET small == Cardinality(ClassOf(original_df, QISet, i)) < KOf
              IN /\ (privacy_result.protected[i][c] = SUPPRESSED) <=> small
                 /\ ~small => privacy_result.protected[i][c] = original_df[i][c]

\* C3: the linkage success rate is (evaluated rows with at least one reference row
\* of the same quasi-identifier tuple) / (evaluated rows), hence within [0, 1].
C3_LinkageCountsRowsOnce ==
    (RiskDone /\ identifier_df.given)
        => LET m == MetricNamed(risk_metrics, "linkage_success_rate")
               hit == {i \in RowIdx(original_df) :
                          \E j \in RowIdx(identifier_df.df) :
                              QITuple(original_df[i], quasi_identifiers)
                                  = QITuple(identifier_df.df[j], quasi_identifiers)}
           IN /\ InUnit(m.value)
              /\ Len(original_df) > 0
                    => SameRatio(m.value, Ratio(Cardinality(hit), Len(original_df)))

\* C4: the uniqueness rate lies in [0, 1], and min_k >= 1 whenever the dataset
\* has at least one row (missing quasi-identifier values included).
C4_RiskMetricBounds ==
    RiskDone
        => /\ InUnit(MetricNamed(risk_metrics, "uniques_rate").value)
           /\ Len(original_df) >= 1 => MetricNamed(risk_metrics, "k_map").details.min_k >= 1

\* C5: the Utility Evaluator never raises on (original, output of the Privacy
\* Transformer applied to original), whatever the technique.
C5_UtilityNeverRaises ==
    ~(pc = "raised" /\ LastStage = "utility")

\* C6: when load, quasi-identifier extraction, risk analysis, transformation or
\* utility evaluation fails, run() has written no file, returned no artifact
\* bundle, and the error in flight out of run() and execute_run is the one the
\* failing collaborator raised.
C6_FailureLeavesNothing ==
    pc \in {"raised", "propagated"}
        => /\ LastStage \in {"load", "extract", "risk", "transform", "utility"}
           /\ files = {}
           /\ ~artifacts.set
           /\ error = CASE LastStage = "load" ->
                             IF ~load_dataframe(dataset_file).ok
                             THEN load_dataframe(dataset_file).error
                             ELSE load_dataframe(identifier_file).error
                        [] LastStage = "extract" -> extract_quasi_identifiers(config).error
                        [] LastStage = "risk" ->
                             RiskEvaluate(quasi_identifiers, original_df, identifier_df).error
                        [] LastStage = "transform" ->
                             PrivacyApply(config.privacy_technique, quasi_identifiers,
                                          config.privacy_parameters, original_df,
                                          NoNoise(Len(original_df))).error
                        [] LastStage = "utility" ->
                             UtilityEvaluate(original_df, privacy_result.protected).error

C6_Witness ==
    /\ pc = "propagated"
    /\ LastStage = "utility"
    /\ privacy_result.protected # original_df

\* C7: when execute_run is over, by return or by exception, the run's status is
\* completed or failed; a run whose orchestrator raised is recorded as failed.
C7_RunEndsTerminal ==
    /\ status \in {"created", "running", "completed", "failed"}
    /\ pc \in {"done", "propagated"} => status \in {"completed", "failed"}
    /\ pc = "propagated" => status = "failed"

StageOrder == <<"load", "extract", "risk", "transform", "utility", "persist", "report", "return">>

\* C8: the stages of run() occur in the order load, (quasi-identifier) extraction,
\* risk, transform,
\* utility, persist, report, return, each at most once; the Risk Analyzer is
\* handed the dataset exactly as loaded, the Utility Evaluator the pair (dataset
\* as loaded, transformer output).
C8_StageOrder ==
    /\ Len(trace) <= Len(StageOrder)
    /\ \A i \in DOMAIN trace :
          /\ trace[i].stage = StageOrder[i]
          /\ trace[i].stage = "risk" => trace[i].args = <<dataset_file.table>>
          /\ trace[i].stage = "utility"
                => trace[i].args = <<dataset_file.table, privacy_result.protected>>

C8_Witness ==
    /\ pc = "done"
    /\ Len(trace) = Len(StageOrder)
    /\ privacy_result.protected # dataset_file.table

\* C9 as stated: recomputing the classes on the output's non-generalised
\* quasi-identifier columns, every row whose class has k or more rows does not
\* carry suppression_value.
C9_RecomputedClassUnsuppressed ==
    KAnonApplied
        => \A i \in RowIdx(privacy_result.protected) :
              Cardinality(ClassOf(privacy_result.protected, NotGeneralised, i)) >= KOf
                  => \A c \in NotGeneralised : privacy_result.protected[i][c] # SUPPRESSED

\* C9 amended: every row whose equivalence class before the transform (the rows
\* of the input sharing all its quasi-identifier values) has k or more rows keeps
\* the input's value in every non-generalised quasi-identifier column.
C9_LargeClassUnsuppressed ==
    KAnonApplied
        => \A i \in RowIdx(original_df) :
              Cardinality(ClassOf(original_df, QISet, i)) >= KOf
                  => \A c \in NotGeneralised :
                        /\ privacy_result.protected[i][c] = original_df[i][c]
                        /\ privacy_result.protected[i][c] # SUPPRESSED

\* A class of k >= 2 or more rows is kept next to a row that is suppressed.
C9_Witness ==
    /\ KAnonApplied
    /\ KOf >= 2
    /\ NotGeneralised # {}
    /\ \E i, j \in RowIdx(original_df) :
          /\ Cardinality(ClassOf(original_df, QISet, i)) >= KOf
          /\ \A c \in NotGeneralised : privacy_result.protected[i][c] = original_df[i][c]
          /\ \E c \in NotGeneralised : privacy_result.protected[j][c] = SUPPRESSED

\* C10: the uniqueness rate is (classes of exactly one row) / (rows), the classes
\* partitioning all rows by equality of the quasi-identifier tuple, a missing
\* value comparing as itself; 0.0 for an empty dataset.
C10_UniquenessRate ==
    RiskDone
        => LET singles == {i \in RowIdx(original_df) :
                              Cardinality(ClassOf(original_df, QISet, i)) = 1}
               m == MetricNamed(risk_metrics, "uniques_rate")
           IN IF Len(original_df) = 0 THEN SameRatio(m.value, Zero)
              ELSE SameRatio(m.value, Ratio(Cardinality(singles), Len(original_df)))

\* One of the labels pandas.cut gives the bins.
IsBin(cell, bins) == \E i \in 1..bins : cell = BinLabel(i, bins)

\* C11: under k_anonymity with generalise_numeric true, in every numeric
\* quasi-identifier column every row of the output holds a bin or the MISSING
\* marker, however many distinct values the column has; no row keeps its number.
C11_GeneralisationColumnWide ==
    (KAnonApplied /\ Get(privacy_result.parameters, "generalise_numeric", TRUE))
        => \A c \in QISet : is_numeric_dtype(original_df, c)
              => \A i \in RowIdx(original_df) :
                    \/ IsBin(privacy_result.protected[i][c],
                             Get(privacy_result.parameters, "bin_count", DefaultBinCount))
                    \/ privacy_result.protected[i][c] = Str(<<"MISSING">>)

\* A step of one of the three components, as seen by the objects it was handed.
InputsKept ==
    pc \in {"risk", "transform", "utility"}
        => /\ original_df' = original_df
           /\ identifier_df' = identifier_df
           /\ pc = "utility" => privacy_result' = privacy_result
           /\ (pc = "transform" /\ pc' = NextStage("transform"))
                 => /\ ~privacy_result'.aliased
                    /\ privacy_result'.technique = "identity"
                          => privacy_result'.protected = original_df

\* C12: the Risk Analyzer, the Privacy Transformer (any technique) and the Utility
\* Evaluator leave each dataset they are handed as it was; apply returns an object
\* of its own, which for the identity technique equals the input in values.
C12_NoInPlaceMutation == [][InputsKept]_vars

\* All three components have run, the transformer having changed a value in its copy.
C12_Witness ==
    /\ pc = "persist"
    /\ identifier_df.given
    /\ privacy_result.technique = "differential_privacy"
    /\ privacy_result.protected # original_df

DPApplied == privacy_result.technique = "differential_privacy"

\* C13: the output of differential_privacy (epsilon > 0) has the input's row
\* count and column set, and every non-numeric column equal cell for cell.
C13_DPPreservesShape ==
    DPApplied
        => /\ Len(privacy_result.protected) = Len(original_df)
           /\ \A i \in RowIdx(original_df) :
                 /\ DOMAIN privacy_result.protected[i] = DOMAIN original_df[i]
                 /\ \A c \in Columns : ~is_numeric_dtype(original_df, c)
                       => privacy_result.protected[i][c] = original_df[i][c]

\* A text column came through next to a numeric column that was perturbed.
C13_Witness ==
    /\ DPApplied
    /\ \E i \in RowIdx(original_df) :
          /\ original_df[i].age.t = "str"
          /\ original_df[i].zipcode.t = "num"
          /\ privacy_result.protected[i].zipcode # original_df[i].zipcode

\* The value a parameter was given, or the stated default.
Given_or(parameters, key, default) ==
    IF key \in DOMAIN parameters THEN parameters[key] ELSE default

\* C14: differential_privacy perturbs every numeric column, quasi-identifier or
\* not, by draws times scale = sensitivity / epsilon; info lists exactly the
\* numeric columns of the input and that scale (1 when both are at their default 1).
C14_DPAllNumericColumns ==
    DPApplied
        => LET eps == Given_or(privacy_result.parameters, "epsilon", 1)
               sens == Given_or(privacy_result.parameters, "sensitivity", 1)
               numeric == {c \in Columns : is_numeric_dtype(original_df, c)}
           IN /\ privacy_result.info.noise_scale * eps = sens
              /\ privacy_result.info.columns = numeric
              /\ \A c \in numeric : \A i \in RowIdx(original_df) :
                    original_df[i][c].t = "num"
                        => /\ privacy_result.protected[i][c].t = "num"
                           /\ \E x \in NoiseVals :
                                 privacy_result.protected[i][c].n
                                     = original_df[i][c].n + privacy_result.info.noise_scale * x

\* A numeric column that is no quasi-identifier was perturbed, at scale 2.
C14_Witness ==
    /\ DPApplied
    /\ privacy_result.info.noise_scale = 2
    /\ "age" \notin QISet
    /\ \E i \in RowIdx(original_df) :
          /\ original_df[i].age.t = "num"
          /\ privacy_result.protected[i].age # original_df[i].age

IsDP == Lower(config.privacy_technique) \in {"differential_privacy", "dp"}

TransformRaised == pc = "raised" /\ LastStage = "transform"

\* C15: differential_privacy with epsilon <= 0 raises ValueError and returns no
\* dataset; with epsilon > 0 it does not raise; an absent epsilon counts as 1.
C15_EpsilonMustBePositive ==
    (IsDP /\ pc # "transform")
        => LET eps == Given_or(config.privacy_parameters, "epsilon", 1)
           IN /\ eps <= 0 => /\ TransformRaised
                             /\ error = "ValueError"
                             /\ privacy_result = NoResult
              /\ eps > 0 => /\ ~TransformRaised
                            /\ DPApplied
                            /\ privacy_result.info.epsilon = eps

\* An epsilon of 0 or less was refused.
C15_Witness ==
    /\ IsDP
    /\ TransformRaised
    /\ "epsilon" \in DOMAIN config.privacy_parameters
    /\ config.privacy_parameters.epsilon < 0

TransformOver == pc # "transform" /\ \E i \in DOMAIN trace : trace[i].stage = "transform"

TransformFailed == pc \in {"raised", "propagated"} /\ LastStage = "transform"

\* C16: building a PrivacyTransformer succeeds for every technique name; an
\* unknown name (l_diversity) raises ValueError when apply is called; a known name
\* in another case (K_Anonymity, Identity) gives what its lower-case form gives.
C16_TechniqueNameChecked ==
    /\ PrivacyTransformerInit(config.privacy_technique, quasi_identifiers,
                              config.privacy_parameters).ok
    /\ TransformOver
          => /\ config.privacy_technique = "l_diversity"
                   => /\ TransformFailed
                      /\ error = "ValueError"
                      /\ privacy_result = NoResult
             /\ config.privacy_technique = "K_Anonymity"
                   => /\ ~TransformFailed
                      /\ privacy_result.technique = "k_anonymity"
                      /\ privacy_result.info.k = config.privacy_parameters.k
             /\ config.privacy_technique = "Identity"
                   => /\ ~TransformFailed
                      /\ privacy_result.technique = "identity"

\* A run under the name K_Anonymity went through, the transformer having suppressed a value.
C16_Witness ==
    /\ pc = "done"
    /\ config.privacy_technique = "K_Anonymity"
    /\ privacy_result.info.suppressed_rows > 0

RiskOver == pc # "risk"

\* C17: when a declared quasi-identifier is no column of the evaluated dataset,
\* RiskAnalyzer.evaluate raises and returns no metric at all.
C17_RiskFailsClosed ==
    (RiskOver /\ \E j \in DOMAIN quasi_identifiers : quasi_identifiers[j] \notin Columns)
        => /\ pc = "raised"
           /\ risk_metrics = <<>>

\* evaluate raised on a dataset with rows that has one declared column and lacks another.
C17_Witness ==
    /\ pc = "raised"
    /\ error = "KeyError"
    /\ Len(original_df) > 0
    /\ \E j \in DOMAIN quasi_identifiers : quasi_identifiers[j] \in Columns

\* C18 as stated: constructing a Risk Analyzer with an empty quasi-identifier set fails.
C18_ConstructionRejectsEmpty ==
    quasi_identifiers = <<>> => ~RiskAnalyzerInit(quasi_identifiers).ok

\* C18 amended: constructing a Risk Analyzer with an empty quasi-identifier set
\* succeeds; evaluate on it raises ValueError and returns no metric.
C18_EvaluateRejectsEmpty ==
    quasi_identifiers = <<>>
        => /\ RiskAnalyzerInit(quasi_identifiers).ok
           /\ RiskOver => /\ pc = "raised"
                          /\ error = "ValueError"
                          /\ risk_metrics = <<>>

\* evaluate raised for an empty quasi-identifier set on a dataset with rows.
C18_Witness ==
    /\ quasi_identifiers = <<>>
    /\ pc = "raised"
    /\ Len(original_df) > 0

UtilityDone == utility_metrics # <<>>

\* The metrics of one kind: those whose name ends in `suffix`.
MetricsOf(suffix) ==
    {i \in DOMAIN utility_metrics :
        /\ utility_metrics[i].name # "rowcount_delta"
        /\ utility_metrics[i].name[2] = suffix}

C20_IdenticalDatasets ==
    (UtilityDone /\ privacy_result.protected = original_df)
        => /\ utility_metrics[1].name = "rowcount_delta"
           /\ utility_metrics[1].value.num = 0
           /\ \A i \in MetricsOf("_mean_delta") : utility_metrics[i].value.num = 0
           /\ \A i \in MetricsOf("_std_delta") :
                 SameRatio(utility_metrics[i].value.orig_var, utility_metrics[i].value.prot_var)
           /\ \A i \in MetricsOf("_overlap") : SameRatio(utility_metrics[i].value, Ratio(1, 1))

\* The metrics named <<c, suffix>>.
MetricsFor(c, suffix) == {i \in MetricsOf(suffix) : utility_metrics[i].name[1] = c}

\* C21: for each numeric column with a value on both sides the mean-delta metric
\* is |orig mean - prot mean| / |orig mean| when the original mean is not zero and
\* |orig mean - prot mean| when it is zero; a column with no value on one side
\* has neither a mean-delta nor a std-delta metric.
C21_MeanDeltaEdgeCases ==
    UtilityDone
        => \A c \in Columns : is_numeric_dtype(original_df, c)
              => LET rowsO == dropna(original_df, c)
                     rowsP == dropna(privacy_result.protected, c)
                     no == Cardinality(rowsO)
                     np == Cardinality(rowsP)
                     so == SumOf(original_df, c)
                     sp == SumOf(privacy_result.protected, c)
                     diff == Abs(so * np - sp * no)
                 IN IF rowsO = {} \/ rowsP = {}
                    THEN MetricsFor(c, "_mean_delta") = {} /\ MetricsFor(c, "_std_delta") = {}
                    ELSE /\ Cardinality(MetricsFor(c, "_mean_delta")) = 1
                         /\ \A i \in MetricsFor(c, "_mean_delta") :
                               /\ utility_metrics[i].value.den > 0
                               /\ IF so # 0
                                  THEN SameRatio(utility_metrics[i].value,
                                                 Ratio(diff, np * Abs(so)))
                                  ELSE SameRatio(utility_metrics[i].value, Ratio(diff, no * np))

\* A column of mean zero whose protected mean is not zero got its absolute delta.
C21_Witness ==
    /\ UtilityDone
    /\ SumOf(original_df, "age") = 0
    /\ \E i \in MetricsFor("age", "_mean_delta") : utility_metrics[i].value.num > 0

\* What is stored at path: the set of contents, empty when there is no such file.
FileAt(path) == {f.content : f \in {g \in files : g.path = path}}

\* C22: invocations of run() executing at once on different data, with distinct
\* run identifiers or with none, do not interfere: once all have returned, the
\* protected-dataset path each returned holds that invocation's protected
\* dataset and the report path it returned holds its own report.
C22_RunsDoNotInterfere ==
    (\A r \in Runs : pc[r] = "returned")
        => \A r \in Runs :
              /\ FileAt(artifacts[r].protected_dataset_path) = {privacy_result[r].protected}
              /\ FileAt(artifacts[r].report_html_path)
                    = {build_report_context(dataset_file[r], run_id[r], risk_metrics,
                                            utility_metrics)}

\* C23: the k-map value is the unweighted mean of the equivalence-class sizes,
\* rows / classes, and never a mean weighted by row; min_k is the size of the
\* smallest class; the classes are those the uniqueness rate counts its
\* single-row classes in: the partition of the rows by quasi-identifier tuple.
C23_KMapUnweightedMean ==
    (RiskDone /\ Len(original_df) > 0)
        => LET classes == {ClassOf(original_df, QISet, i) : i \in RowIdx(original_df)}
               m == MetricNamed(risk_metrics, "k_map")
               u == MetricNamed(risk_metrics, "uniques_rate")
           IN /\ SameRatio(m.value, Ratio(Len(original_df), Cardinality(classes)))
              /\ m.details.min_k = MinOf({Cardinality(g) : g \in classes})
              /\ u.details.unique_records
                    = Cardinality({g \in classes : Cardinality(g) = 1})

\* The report of the run has been written.
ReportWritten == FileAt(report_path(run_id, now)) # {}

\* The recommendations rendered into the report.
Recommended ==
    LET context == CHOOSE c \in FileAt(report_path(run_id, now)) : TRUE
    IN {context.recommendations[i] : i \in DOMAIN context.recommendations}

UniquenessHigh == Exceeds(MetricNamed(risk_metrics, "uniques_rate").value, 1, 10)

LinkageHigh ==
    \E i \in DOMAIN risk_metrics :
        /\ risk_metrics[i].name = "linkage_success_rate"
        /\ Exceeds(risk_metrics[i].value, 5, 100)

MeanDeltaHigh ==
    \E i \in MetricsOf("_mean_delta") : Exceeds(utility_metrics[i].value, 2, 10)

\* C24: the recommendation list is never empty; it holds the uniqueness
\* recommendation iff the uniqueness rate exceeds 0.1, the linkage recommendation
\* iff there is a linkage-success metric and it exceeds 0.05, the utility
\* recommendation iff some numeric mean-delta metric exceeds 0.2, and the
\* 'acceptable' recommendation iff none of the three rules fires, as the only entry.
C24_Recommendations ==
    ReportWritten
        => /\ Recommended # {}
           /\ "increase_k_or_noise" \in Recommended <=> UniquenessHigh
           /\ "stronger_controls" \in Recommended <=> LinkageHigh
           /\ "adjust_epsilon" \in Recommended <=> MeanDeltaHigh
           /\ "acceptable" \in Recommended
                 <=> ~(UniquenessHigh \/ LinkageHigh \/ MeanDeltaHigh)
           /\ "acceptable" \in Recommended => Recommended = {"acceptable"}

C24_Witness ==
    /\ ReportWritten
    /\ Recommended = {"increase_k_or_noise", "stronger_controls", "adjust_epsilon"}

\* The backend's k-anonymity transformer has returned a table.
BackendKAnonDone == pc # "transform" /\ privacy_result.technique = "k_anonymity"

BackendK == Get(config.privacy_parameters, "k", BackendDefaultK)

UnitValue(r) == r.den > 0 /\ 0 <= r.num /\ r.num <= r.den

\* C26: backend UtilityEvaluator.evaluate, on an original and a protected
\* dataset of the same shape: the data_completeness metric and the
\* mean_preservation metric each lie in [0, 1].
C26_BackendMetricsInUnit ==
    \A i \in DOMAIN utility_metrics :
        utility_metrics[i].name \in {"data_completeness", "mean_preservation"}
            => UnitValue(utility_metrics[i].value)

\* Two rounds of draws made independently of each other: wherever a draw is
\* made, the two rounds differ.
IndependentDraws(n1, n2) ==
    \A c \in Columns : \A i \in RowIdx(original_df) : n1[c][i] # 0 => n1[c][i] # n2[c][i]

\* C27: differential privacy adds non-deterministic noise: every perturbed
\* numeric column of the output differs from the input column, and two
\* applications to the same input, each with its own draws, give two different
\* outputs.
C27_DPNonDeterministic ==
    DPApplied
        => /\ \A c \in privacy_result.info.columns :
                 ColumnOf(privacy_result.protected, c) # ColumnOf(original_df, c)
           /\ \A n1, n2 \in NoiseDraws(config.privacy_technique, config.privacy_parameters,
                                         original_df) :
                 IndependentDraws(n1, n2)
                     => PrivacyApply(config.privacy_technique, quasi_identifiers,
                                     config.privacy_parameters, original_df, n1).value.protected
                        # PrivacyApply(config.privacy_technique, quasi_identifiers,
                                       config.privacy_parameters, original_df, n2).value.protected

\* C28: the k-anonymity transformer and the Risk Analyzer agree on the
\* equivalence classes: two rows get the same '||'-joined key iff their
\* quasi-identifier tuples are equal, so info.suppressed_rows is the number of
\* rows in analyzer classes of fewer than k rows, info.total_rows is the row
\* count, and suppressed_rows is 0 exactly when the analyzer's min_k >= k.
C28_TransformerAnalyzerAgree ==
    KAnonApplied
        => LET keys == key_series(original_df, quasi_identifiers)
               small == {g \in group_sizes(original_df, quasi_identifiers) :
                            Cardinality(g) < KOf}
               min_k == k_map(original_df, quasi_identifiers).details.min_k
           IN /\ \A i, j \in RowIdx(original_df) :
                    keys[i] = keys[j]
                        <=> QITuple(original_df[i], quasi_identifiers)
                              = QITuple(original_df[j], quasi_identifiers)
              /\ privacy_result.info.suppressed_rows = Cardinality(UNION small)
              /\ privacy_result.info.total_rows = Len(original_df)
              /\ privacy_result.info.suppressed_rows = 0 <=> min_k >= KOf

\* One step leaves every run's status where it was or moves it forwards.
StatusForward ==
    \A r \in Runs :
        /\ status[r] = "running" => status'[r] # "queued"
        /\ status[r] \in {"completed", "failed"} => status'[r] = status[r]

\* C29: with background jobs, under every interleaving of create_pipeline_run
\* and execute_pipeline_task, a run's status never moves backwards: once running
\* it is never set back to queued, and once completed or failed it never changes.
C29_StatusNeverBackwards == [][StatusForward]_vars

\* C30: k-anonymity changes quasi-identifier columns only: the output has the
\* input's row count and columns, and every cell of every other column equals
\* the input's; the row-count delta the Utility Evaluator then reports is 0.0.
C30_KAnonFrame ==
    KAnonApplied
        => /\ Len(privacy_result.protected) = Len(original_df)
           /\ \A i \in RowIdx(original_df) :
                 /\ DOMAIN privacy_result.protected[i] = DOMAIN original_df[i]
                 /\ \A c \in Columns \ QISet :
                        privacy_result.protected[i][c] = original_df[i][c]
           /\ UtilityDone
                 => SameRatio(MetricNamed(utility_metrics, "rowcount_delta").value, Zero)

C30_Witness ==
    /\ KAnonApplied
    /\ UtilityDone
    /\ Columns \ QISet # {}
    /\ \E i \in RowIdx(original_df) : privacy_result.protected[i] # original_df[i]

====
